---- MODULE Spec2Model ----
(***************************************************************************)
(* Product_AutoOrder1.5.py: the settings store, the three-tier settings    *)
(* resolver, the exclusion filter, the order calculator and the overstock  *)
(* classifier of the Streamlit script, as a state machine over the         *)
(* script's session state and its settings file.                           *)
(***************************************************************************)
EXTENDS Integers, Sequences, FiniteSets, TLC

(***************************************************************************)
(* Python float arithmetic.  Every quantity the calculator derives is a    *)
(* Python float (IEEE-754 binary64, round-to-nearest-even).  A float is    *)
(* [s, m, e]: the value (-1)^s * m * 2^e, with m a natural number of       *)
(* exactly MantBits bits, or zero.  TLC's integers are 32 bits wide, so m  *)
(* is a little-endian sequence of limbs in base WB.                        *)
(***************************************************************************)
LimbBits == 14
MantBits == 53
WB == 2 ^ LimbBits

MaxOf(S) == CHOOSE x \in S : \A y \in S : y <= x
MinOf(S) == CHOOSE x \in S : \A y \in S : x <= y

Limb(a, i) == IF i >= 1 /\ i <= Len(a) THEN a[i] ELSE 0

BTrim(a) ==
    LET nz == {i \in 1..Len(a) : a[i] # 0}
    IN  IF nz = {} THEN <<>> ELSE SubSeq(a, 1, MaxOf(nz))

RECURSIVE BCarryFrom(_, _, _)
BCarryFrom(cols, i, c) ==
    IF i > Len(cols)
    THEN IF c = 0 THEN <<>> ELSE <<c % WB>> \o BCarryFrom(cols, i, c \div WB)
    ELSE LET v == cols[i] + c
         IN  <<v % WB>> \o BCarryFrom(cols, i + 1, v \div WB)

BAdd(a, b) ==
    BTrim(BCarryFrom([i \in 1..MaxOf({Len(a), Len(b)}) |-> Limb(a, i) + Limb(b, i)], 1, 0))

\* a - b for a >= b
BSub(a, b) ==
    BTrim(BCarryFrom([i \in 1..Len(a) |-> a[i] - Limb(b, i)], 1, 0))

BMulSmall(a, k) == BTrim(BCarryFrom([i \in 1..Len(a) |-> a[i] * k], 1, 0))

RECURSIVE BColumn(_, _, _, _)
BColumn(a, b, k, i) ==
    IF i > Len(a) THEN 0
    ELSE Limb(a, i) * Limb(b, k + 1 - i) + BColumn(a, b, k, i + 1)

\* operands of at most 4 limbs: a column sum stays below 2^31
BMul(a, b) ==
    IF a = <<>> \/ b = <<>> THEN <<>>
    ELSE BTrim(BCarryFrom([k \in 1..(Len(a) + Len(b) - 1) |-> BColumn(a, b, k, 1)], 1, 0))

\* -1, 0, 1 as a < b, a = b, a > b
BCmp(a, b) ==
    LET df == {i \in 1..MaxOf({Len(a), Len(b)}) : Limb(a, i) # Limb(b, i)}
    IN  IF df = {} THEN 0
        ELSE IF Limb(a, MaxOf(df)) < Limb(b, MaxOf(df)) THEN -1 ELSE 1

BShl(a, n) ==
    IF a = <<>> THEN <<>>
    ELSE [i \in 1..(n \div LimbBits) |-> 0] \o BMulSmall(a, 2 ^ (n % LimbBits))

BShr(a, n) ==
    LET q == n \div LimbBits
        r == n % LimbBits
        x == IF q >= Len(a) THEN <<>> ELSE SubSeq(a, q + 1, Len(a))
    IN  BTrim([i \in 1..Len(x) |->
                 (x[i] \div (2 ^ r)) + (Limb(x, i + 1) % (2 ^ r)) * (2 ^ (LimbBits - r))])

\* a mod 2^n
BLow(a, n) ==
    LET q == n \div LimbBits
        r == n % LimbBits
    IN  BTrim([i \in 1..MinOf({Len(a), q + 1}) |->
                 IF i <= q THEN a[i] ELSE a[i] % (2 ^ r)])

BitLenSmall(x) == CHOOSE k \in 1..LimbBits : 2 ^ (k - 1) <= x /\ x < 2 ^ k

BBitLen(a) ==
    IF a = <<>> THEN 0 ELSE LimbBits * (Len(a) - 1) + BitLenSmall(a[Len(a)])

\* the number of trailing zero bits of a # 0
BTrailingZeros(a) ==
    LET i == MinOf({j \in 1..Len(a) : a[j] # 0})
    IN  LimbBits * (i - 1) + MaxOf({k \in 0..(LimbBits - 1) : a[i] % (2 ^ k) = 0})

BFromNat(n) == BTrim(<<n % WB, (n \div WB) % WB, n \div (WB * WB)>>)

\* for a < 2^31
BToNat(a) == Limb(a, 1) + Limb(a, 2) * WB + Limb(a, 3) * WB * WB

\* <<floor(a / d), a mod d>> for a one-limb-sized divisor 0 < d < 2^17
RECURSIVE BDivSmallFrom(_, _, _, _)
BDivSmallFrom(a, d, i, rem) ==
    IF i = 0 THEN <<<<>>, rem>>
    ELSE LET cur  == rem * WB + a[i]
             rest == BDivSmallFrom(a, d, i - 1, cur % d)
         IN  <<Append(rest[1], cur \div d), rest[2]>>

BDivSmall(a, d) ==
    LET r == BDivSmallFrom(a, d, Len(a), 0)
    IN  <<BTrim(r[1]), r[2]>>

\* one more quotient bit of rem / d (rem < d), on <<quotient, remainder>>
BDivStep(qr, d) ==
    LET r2  == BMulSmall(qr[2], 2)
        bit == BCmp(r2, d) >= 0
    IN  <<BAdd(BMulSmall(qr[1], 2), IF bit THEN <<1>> ELSE <<>>),
          IF bit THEN BSub(r2, d) ELSE r2>>

\* n more quotient bits
RECURSIVE BDivBits(_, _, _)
BDivBits(qr, d, n) ==
    IF n = 0 THEN qr
    ELSE IF n = 1 THEN BDivStep(qr, d)
    ELSE CHOOSE r \in {BDivBits(half, d, n - (n \div 2)) :
                          half \in {BDivBits(qr, d, n \div 2)}} : TRUE

FZero == [s |-> 0, m |-> <<>>, e |-> 0]

\* (-1)^s * M * 2^e rounded to MantBits bits, to nearest, ties to even
FRound(s, M, e) ==
    LET n == BBitLen(M)
    IN  IF n = 0 THEN FZero
        ELSE IF n <= MantBits
        THEN [s |-> s, m |-> BShl(M, MantBits - n), e |-> e - (MantBits - n)]
        ELSE LET d    == n - MantBits
                 q    == BShr(M, d)
                 c    == BCmp(BLow(M, d), BShl(<<1>>, d - 1))
                 up   == c > 0 \/ (c = 0 /\ q[1] % 2 = 1)
                 q2   == IF up THEN BAdd(q, <<1>>) ELSE q
             IN  IF BBitLen(q2) > MantBits
                 THEN [s |-> s, m |-> BShr(q2, 1), e |-> e + d + 1]
                 ELSE [s |-> s, m |-> q2, e |-> e + d]

\* float(n) of a Python int
FFromInt(n) == FRound(IF n < 0 THEN 1 ELSE 0, BFromNat(IF n < 0 THEN -n ELSE n), 0)

FNeg(a) == IF a.m = <<>> THEN a ELSE [a EXCEPT !.s = 1 - a.s]

FMul(a, b) ==
    IF a.m = <<>> \/ b.m = <<>> THEN FZero
    ELSE FRound((a.s + b.s) % 2, BMul(a.m, b.m), a.e + b.e)

\* a / b, b # 0: the quotient to more than MantBits + 2 bits, a last bit set when
\* the division left a remainder, then rounded once
FDiv(a, b) ==
    IF a.m = <<>> THEN FZero
    ELSE LET t   == BTrailingZeros(b.m)
             d   == BShr(b.m, t)
             sg  == (a.s + b.s) % 2
         IN  IF Len(d) = 1
             THEN LET k  == 5 * LimbBits
                      qr == BDivSmall(BShl(a.m, k), d[1])
                  IN  FRound(sg, BAdd(BMulSmall(qr[1], 2), IF qr[2] = 0 THEN <<>> ELSE <<1>>),
                             a.e - b.e - t - k - 1)
             ELSE LET first == IF BCmp(a.m, b.m) >= 0 THEN 1 ELSE 0
                      qr    == BDivBits(<<IF first = 1 THEN <<1>> ELSE <<>>,
                                          IF first = 1 THEN BSub(a.m, b.m) ELSE a.m>>,
                                        b.m, MantBits + 2)
                  IN  FRound(sg, BAdd(BMulSmall(qr[1], 2), IF qr[2] = <<>> THEN <<>> ELSE <<1>>),
                             a.e - b.e - (MantBits + 2) - 1)

\* a + b exactly, as [s, m, e] with m of any length
FSumExact(a, b) ==
    IF a.m = <<>> THEN b
    ELSE IF b.m = <<>> THEN a
    ELSE LET e  == MinOf({a.e, b.e})
             ma == BShl(a.m, a.e - e)
             mb == BShl(b.m, b.e - e)
             c  == BCmp(ma, mb)
         IN  IF a.s = b.s THEN [s |-> a.s, m |-> BAdd(ma, mb), e |-> e]
             ELSE IF c = 0 THEN FZero
             ELSE IF c > 0 THEN [s |-> a.s, m |-> BSub(ma, mb), e |-> e]
             ELSE [s |-> b.s, m |-> BSub(mb, ma), e |-> e]

FAdd(a, b) == LET x == FSumExact(a, b) IN FRound(x.s, x.m, x.e)

FSub(a, b) == FAdd(a, FNeg(b))

\* -1, 0, 1 as a < b, a = b, a > b
FCmp(a, b) ==
    LET x == FSumExact(a, FNeg(b))
    IN  IF x.m = <<>> THEN 0 ELSE IF x.s = 1 THEN -1 ELSE 1

\* math.ceil(a), a Python int
FCeil(a) ==
    IF a.m = <<>> THEN 0
    ELSE IF a.e >= 0 THEN (IF a.s = 1 THEN -1 ELSE 1) * BToNat(BShl(a.m, a.e))
    ELSE LET ip == BToNat(BShr(a.m, -a.e))
             fr == BLow(a.m, -a.e) # <<>>
         IN  IF a.s = 1 THEN -ip ELSE IF fr THEN ip + 1 ELSE ip

\* format(a, ".0f") of a float a >= 0 whose value is below 2^31: the nearest
\* integer, ties to even
FFormat0(a) ==
    IF a.m = <<>> THEN 0
    ELSE IF a.e >= 0 THEN BToNat(BShl(a.m, a.e))
    ELSE LET ip == BToNat(BShr(a.m, -a.e))
             c  == BCmp(BLow(a.m, -a.e), BShl(<<1>>, (-a.e) - 1))
         IN  IF c > 0 \/ (c = 0 /\ ip % 2 = 1) THEN ip + 1 ELSE ip

(***************************************************************************)
(* Constants of the script (lines 26-37).                                  *)
(***************************************************************************)
Fields == {"lead_time", "safety_stock_rate", "addition_rate", "order_unit", "min_sales"}

INITIAL_DEFAULT_SETTINGS ==
    [lead_time |-> 15, safety_stock_rate |-> 10, addition_rate |-> 0,
     order_unit |-> 5, min_sales |-> 0]

\* the values of the column '비고'
ST_URGENT     == "urgent reorder"        \* 발주 필요 (긴급)
ST_REORDER    == "reorder needed"        \* 발주 필요
ST_SUFFICIENT == "stock sufficient"      \* 재고 충분
ST_EXCESS     == "excess stock"          \* 초과재고
ST_SEVERE     == "severe excess stock"   \* 악성 초과재고
ST_PERIOD     == "period invalid"        \* 기간 1일 이상

\* float('inf'): the exponent above the largest finite one, no mantissa
INF == [s |-> 0, m |-> <<>>, e |-> 1024]

(***************************************************************************)
(* Python dicts are functions on a finite set of keys.                     *)
(***************************************************************************)
EmptyDict == [k \in {} |-> 0]

\* {**a, **b}
DictMerge(a, b) ==
    [k \in (DOMAIN a) \cup (DOMAIN b) |-> IF k \in DOMAIN b THEN b[k] ELSE a[k]]

\* d.get(k, default)
Get(d, k, default) == IF k \in DOMAIN d THEN d[k] ELSE default

\* d with key k dropped
\* del d[k] that removes nothing
DictDel_Keep(d, k) == d

DictDel(d, k) == [j \in (DOMAIN d) \ {k} |-> d[j]]

\* d[k] = v
DictSet(d, k, v) == [j \in (DOMAIN d) \cup {k} |-> IF j = k THEN v ELSE d[j]]

(***************************************************************************)
(* calculate_order_quantity (lines 126-177).                               *)
(***************************************************************************)
\* line 135: the three tiers merged, min_sales dropped
FinalSettings(item_code, supplier, settings) ==
    LET merged == DictMerge(DictMerge(Get(settings, "master_defaults", INITIAL_DEFAULT_SETTINGS),
                                      Get(Get(settings, "defaults", EmptyDict), supplier, EmptyDict)),
                            Get(Get(settings, "overrides", EmptyDict), item_code, EmptyDict))
    IN  [k \in (DOMAIN merged) \ {"min_sales"} |-> merged[k]]

\* lines 140-141 with the default of line 37 for 1
OrderUnit_Default(final_settings) ==
    LET order_unit == Get(final_settings, "order_unit", 1)
    IN  IF order_unit <= 0 THEN INITIAL_DEFAULT_SETTINGS["order_unit"] ELSE order_unit

\* lines 137-141
OrderUnit(final_settings) ==
    LET order_unit == Get(final_settings, "order_unit", 1)
    IN  IF order_unit <= 0 THEN 1 ELSE order_unit

\* lines 151-152
ReorderPointOf(sales_during_lead_time, safety_stock_rate) ==
    FAdd(sales_during_lead_time, FMul(sales_during_lead_time, safety_stock_rate))

\* lines 149-152, from the row's sales and the resolved settings
ReorderPoint(sales_quantity, lead_time, safety_stock_rate, period_days) ==
    ReorderPointOf(FMul(FDiv(FFromInt(sales_quantity), FFromInt(period_days)),
                        FFromInt(lead_time)),
                   safety_stock_rate)

\* lines 162-163 with math.floor for math.ceil
FinalOrderQuantity_Floor(base_order_quantity, addition_rate, order_unit) ==
    LET calculated_quantity == FMul(base_order_quantity, FAdd(FFromInt(1), addition_rate))
    IN  (-FCeil(FNeg(FDiv(calculated_quantity, FFromInt(order_unit))))) * order_unit

\* lines 162-163
FinalOrderQuantity(base_order_quantity, addition_rate, order_unit) ==
    LET calculated_quantity == FMul(base_order_quantity, FAdd(FFromInt(1), addition_rate))
    IN  FCeil(FDiv(calculated_quantity, FFromInt(order_unit))) * order_unit

\* line 170, after line 149
DaysAt(current_stock, avg_daily_sales) ==
    IF FCmp(avg_daily_sales, FZero) > 0
    THEN FDiv(FFromInt(current_stock), avg_daily_sales)
    ELSE INF

\* lines 149, 170 with the sales of the period for the sales of a day
DaysToStockout_OfPeriod(sales_quantity, current_stock, period_days) ==
    DaysAt(current_stock, FFromInt(sales_quantity))

\* lines 149, 170
DaysToStockout(sales_quantity, current_stock, period_days) ==
    DaysAt(current_stock, FDiv(FFromInt(sales_quantity), FFromInt(period_days)))

\* line 175
AppliedSettings(lead_time, safety_stock_rate, addition_rate, order_unit) ==
    [L |-> lead_time,
     S |-> FFormat0(FMul(safety_stock_rate, FFromInt(100))),
     A |-> FFormat0(FMul(addition_rate, FFromInt(100))),
     U |-> order_unit]

\* lines 155-160 without the test reorder_point > 0 of line 156
StockCoveredBranch_NoRpTest(current_stock, reorder_point) ==
    IF FCmp(FFromInt(current_stock), FMul(reorder_point, FFromInt(2))) > 0
    THEN [recommended |-> 0, excess |-> current_stock - FCeil(reorder_point),
          remark |-> ST_EXCESS]
    ELSE [recommended |-> 0, excess |-> 0, remark |-> ST_SUFFICIENT]

\* lines 155-160: [recommended, excess, remark] when base_order_quantity <= 0
StockCoveredBranch(current_stock, reorder_point) ==
    IF /\ FCmp(FFromInt(current_stock), FMul(reorder_point, FFromInt(2))) > 0
       /\ FCmp(reorder_point, FZero) > 0
    THEN [recommended |-> 0, excess |-> current_stock - FCeil(reorder_point),
          remark |-> ST_EXCESS]
    ELSE [recommended |-> 0, excess |-> 0, remark |-> ST_SUFFICIENT]

\* lines 165-168 with <= for <
ReorderRemark_Le(current_stock, final_order_quantity) ==
    IF current_stock <= final_order_quantity THEN ST_URGENT ELSE ST_REORDER

\* lines 165-168
ReorderRemark(current_stock, final_order_quantity) ==
    IF current_stock < final_order_quantity THEN ST_URGENT ELSE ST_REORDER

\* lines 164-168: [recommended, excess, remark] when base_order_quantity > 0
ReorderResult(current_stock, final_order_quantity) ==
    [recommended |-> final_order_quantity, excess |-> 0,
     remark |-> ReorderRemark(current_stock, final_order_quantity)]

\* lines 161-168
ReorderBranch(current_stock, base_order_quantity, addition_rate, order_unit) ==
    ReorderResult(current_stock,
                  FinalOrderQuantity(base_order_quantity, addition_rate, order_unit))

\* lines 155-168: the branch on base_order_quantity
StockBranch(current_stock, reorder_point, base_order_quantity, addition_rate, order_unit) ==
    IF FCmp(base_order_quantity, FZero) <= 0
    THEN StockCoveredBranch(current_stock, reorder_point)
    ELSE ReorderBranch(current_stock, base_order_quantity, addition_rate, order_unit)

\* lines 153-168
StockBranchAt(current_stock, reorder_point, addition_rate, order_unit) ==
    StockBranch(current_stock, reorder_point, FSub(reorder_point, FFromInt(current_stock)),
                addition_rate, order_unit)

\* [recommended, excess, remark] and days_to_stockout together
WithDays(b, days_to_stockout) ==
    [recommended |-> b.recommended, excess |-> b.excess, remark |-> b.remark,
     days |-> days_to_stockout]

\* lines 148-170: [recommended, excess, remark, days] for period_days > 0
ValidPeriodBranch(sales_quantity, current_stock, lead_time, safety_stock_rate, addition_rate, order_unit, period_days) ==
    WithDays(StockBranchAt(current_stock,
                           ReorderPoint(sales_quantity, lead_time, safety_stock_rate,
                                        period_days),
                           addition_rate, order_unit),
             DaysToStockout(sales_quantity, current_stock, period_days))

\* lines 171-173 without line 173
InvalidPeriodBranch_NoDays ==
    [recommended |-> 0, excess |-> 0, remark |-> ST_PERIOD, days |-> FZero]

\* lines 145-146, 171-173: [recommended, excess, remark, days] for period_days <= 0
InvalidPeriodBranch ==
    [recommended |-> 0, excess |-> 0, remark |-> ST_PERIOD, days |-> INF]

\* line 176: the row with the result columns
ResultRow(row, b, applied) ==
    [code |-> row.code, name |-> row.name, supplier |-> row.supplier,
     sales |-> row.sales, stock |-> row.stock,
     recommended |-> b.recommended, excess |-> b.excess, remark |-> b.remark,
     days |-> b.days, applied |-> applied]

\* lines 143-176, with the settings read at lines 137-141
CalculateWith(row, lead_time, safety_stock_rate, addition_rate, order_unit, period_days) ==
    ResultRow(row,
              IF period_days > 0
              THEN ValidPeriodBranch(row.sales, row.stock, lead_time, safety_stock_rate,
                                     addition_rate, order_unit, period_days)
              ELSE InvalidPeriodBranch,
              AppliedSettings(lead_time, safety_stock_rate, addition_rate, order_unit))

\* lines 137-176, with the settings merged at line 135
CalculateFrom(row, final_settings, period_days) ==
    CalculateWith(row,
                  Get(final_settings, "lead_time", 0),
                  FDiv(FFromInt(Get(final_settings, "safety_stock_rate", 0)), FFromInt(100)),
                  FDiv(FFromInt(Get(final_settings, "addition_rate", 0)), FFromInt(100)),
                  OrderUnit(final_settings),
                  period_days)

\* one pass of the loop of lines 132-176
CalculateRow(row, settings, period_days) ==
    CalculateFrom(row, FinalSettings(row.code, row.supplier, settings), period_days)

\* the loop of lines 132-176 with master_defaults for the merge of line 135
calculate_order_quantity_Master(df, settings, period_days) ==
    [i \in 1..Len(df) |->
       CalculateFrom(df[i],
                     FinalSettings("", "", [master_defaults |-> settings["master_defaults"]]),
                     period_days)]

calculate_order_quantity(df, settings, period_days) ==
    [i \in 1..Len(df) |-> CalculateRow(df[i], settings, period_days)]

(***************************************************************************)
(* The settings store (lines 40-59).  The settings file is                 *)
(* [exists, doc]: doc is the JSON document, a dict.                        *)
(***************************************************************************)
NoFile == [exists |-> FALSE, doc |-> EmptyDict]

\* dict.setdefault(k, v) on every value of a dict of dicts
SetDefaultAll(entries, k, v) ==
    [n \in DOMAIN entries |-> IF k \in DOMAIN entries[n] THEN entries[n] ELSE DictSet(entries[n], k, v)]

load_settings(f) ==
    IF f.exists
    THEN LET master == IF "master_defaults" \notin DOMAIN f.doc
                       THEN INITIAL_DEFAULT_SETTINGS
                       ELSE IF "min_sales" \notin DOMAIN f.doc["master_defaults"]
                       THEN DictSet(f.doc["master_defaults"], "min_sales",
                                    INITIAL_DEFAULT_SETTINGS["min_sales"])
                       ELSE f.doc["master_defaults"]
         IN  [k \in (DOMAIN f.doc) \cup {"master_defaults"} |->
                IF k = "master_defaults" THEN master
                ELSE IF k = "defaults"
                THEN SetDefaultAll(f.doc[k], "min_sales", master["min_sales"])
                ELSE IF k = "overrides"
                THEN SetDefaultAll(f.doc[k], "min_sales", INITIAL_DEFAULT_SETTINGS["min_sales"])
                ELSE f.doc[k]]
    ELSE [master_defaults |-> INITIAL_DEFAULT_SETTINGS, defaults |-> EmptyDict,
          overrides |-> EmptyDict]

\* save_settings that does not write the overrides
save_settings_NoOverrides(tree) == [exists |-> TRUE, doc |-> DictSet(tree, "overrides", EmptyDict)]

save_settings(tree) == [exists |-> TRUE, doc |-> tree]

(***************************************************************************)
(* The resolvers (lines 68-87).                                            *)
(***************************************************************************)
\* lines 72-77 with the test of the supplier entry before that of the override
get_min_sales_for_row_SupplierFirst(row, tree) ==
    LET master_defaults == Get(tree, "master_defaults", INITIAL_DEFAULT_SETTINGS)
        overrides       == Get(tree, "overrides", EmptyDict)
        defaults        == Get(tree, "defaults", EmptyDict)
    IN  IF row.supplier \in DOMAIN defaults /\ "min_sales" \in DOMAIN defaults[row.supplier]
        THEN defaults[row.supplier]["min_sales"]
        ELSE IF row.code \in DOMAIN overrides /\ "min_sales" \in DOMAIN overrides[row.code]
        THEN overrides[row.code]["min_sales"]
        ELSE Get(master_defaults, "min_sales", 0)

get_min_sales_for_row(row, tree) ==
    LET master_defaults == Get(tree, "master_defaults", INITIAL_DEFAULT_SETTINGS)
        overrides       == Get(tree, "overrides", EmptyDict)
        defaults        == Get(tree, "defaults", EmptyDict)
    IN  IF row.code \in DOMAIN overrides /\ "min_sales" \in DOMAIN overrides[row.code]
        THEN overrides[row.code]["min_sales"]
        ELSE IF row.supplier \in DOMAIN defaults /\ "min_sales" \in DOMAIN defaults[row.supplier]
        THEN defaults[row.supplier]["min_sales"]
        ELSE Get(master_defaults, "min_sales", 0)

\* line 86 with the supplier tier merged last
get_settings_for_item_SupplierLast(item_code, supplier, tree) ==
    LET master_defaults   == Get(tree, "master_defaults", INITIAL_DEFAULT_SETTINGS)
        supplier_defaults == Get(Get(tree, "defaults", EmptyDict), supplier, EmptyDict)
        item_overrides    == Get(Get(tree, "overrides", EmptyDict), item_code, EmptyDict)
    IN  DictMerge(DictMerge(master_defaults, item_overrides), supplier_defaults)

get_settings_for_item(item_code, supplier, tree) ==
    LET master_defaults   == Get(tree, "master_defaults", INITIAL_DEFAULT_SETTINGS)
        supplier_defaults == Get(Get(tree, "defaults", EmptyDict), supplier, EmptyDict)
        item_overrides    == Get(Get(tree, "overrides", EmptyDict), item_code, EmptyDict)
    IN  DictMerge(DictMerge(master_defaults, supplier_defaults), item_overrides)

\* lines 103-107: 개별 품목 설정, 매입처별 기본값, 마스터 기본값
SRC_ITEM     == "item setting"
SRC_SUPPLIER == "supplier default"
SRC_MASTER   == "master default"

\* lines 89-124
create_settings_export_data(df_filtered, settings) ==
    [i \in 1..Len(df_filtered) |->
       LET item_code      == df_filtered[i].code
           supplier       == df_filtered[i].supplier
           final_settings == get_settings_for_item(item_code, supplier, settings)
       IN  [code              |-> item_code,
            lead_time         |-> Get(final_settings, "lead_time", 15),
            safety_stock_rate |-> Get(final_settings, "safety_stock_rate", 10),
            addition_rate     |-> Get(final_settings, "addition_rate", 0),
            order_unit        |-> Get(final_settings, "order_unit", 5),
            min_sales         |-> Get(final_settings, "min_sales", 0),
            source            |-> IF item_code \in DOMAIN Get(settings, "overrides", EmptyDict)
                                  THEN SRC_ITEM
                                  ELSE IF supplier \in DOMAIN Get(settings, "defaults", EmptyDict)
                                  THEN SRC_SUPPLIER
                                  ELSE SRC_MASTER]]

(***************************************************************************)
(* The exclusion filter of the calculation run (lines 36, 539-548).  An    *)
(* item name is a sequence of characters; a missing name (NaN) reads       *)
(* 'nan' under astype(str).                                                *)
(***************************************************************************)
EXCLUDE_KEYWORDS ==
    << <<"bae", "song", "bi">>,            \* 배송비
       <<"cheot", " ", "ju", "mun">>,      \* 첫 주문
       <<"ku", "pon">>,                    \* 쿠폰
       <<"gae", "in", "gyeol", "je">>,     \* 개인결제
       <<"ma", "il", "ri", "ji">> >>       \* 마일리지

MissingName == <<"NaN">>

AsStr(name) == IF name = MissingName THEN <<"n", "a", "n">> ELSE name

\* re.search of a pattern without metacharacters: a substring test
Contains(text, kw) ==
    \E i \in 1..(Len(text) - Len(kw) + 1) : SubSeq(text, i, i + Len(kw) - 1) = kw

\* str.match for str.contains: the pattern anchored at the start of the name
MatchesExcludePattern_Anchored(name) ==
    \E k \in 1..Len(EXCLUDE_KEYWORDS) :
        /\ Len(AsStr(name)) >= Len(EXCLUDE_KEYWORDS[k])
        /\ SubSeq(AsStr(name), 1, Len(EXCLUDE_KEYWORDS[k])) = EXCLUDE_KEYWORDS[k]

\* str.contains('|'.join(EXCLUDE_KEYWORDS), na=False)
MatchesExcludePattern(name) ==
    \E k \in 1..Len(EXCLUDE_KEYWORDS) : Contains(AsStr(name), EXCLUDE_KEYWORDS[k])

\* df[mask]: the rows of df, in order, whose mask entry is TRUE
RECURSIVE SelectFrom(_, _, _)
SelectFrom(df, mask, i) ==
    IF i > Len(df) THEN <<>>
    ELSE (IF mask[i] THEN <<df[i]>> ELSE <<>>) \o SelectFrom(df, mask, i + 1)

SelectRows(df, mask) == SelectFrom(df, mask, 1)

\* line 541
KeywordFilter(df) ==
    SelectRows(df, [i \in 1..Len(df) |-> ~MatchesExcludePattern(df[i].name)])

\* lines 544-546 with > for >=
ThresholdFilter_Strict(df_filtered, tree) ==
    SelectRows(df_filtered,
               [i \in 1..Len(df_filtered) |->
                  df_filtered[i].sales > get_min_sales_for_row(df_filtered[i], tree)])

\* lines 544-546
ThresholdFilter(df_filtered, tree) ==
    SelectRows(df_filtered,
               [i \in 1..Len(df_filtered) |->
                  df_filtered[i].sales >= get_min_sales_for_row(df_filtered[i], tree)])

(***************************************************************************)
(* The overstock section of the result view (lines 769-776).               *)
(***************************************************************************)
\* numpy's nan
NAN == [s |-> 0, m |-> <<1>>, e |-> 1024]

\* lines 772: stock / sales.replace(0, nan)
OverstockRatio(row) ==
    IF row.sales = 0 THEN NAN ELSE FDiv(FFromInt(row.stock), FFromInt(row.sales))

\* Series.median(): NaN skipped; the middle value of the sorted values, the mean
\* of the two middle ones for an even count; NaN for no value
Median(vals) ==
    LET idx    == {i \in 1..Len(vals) : vals[i] # NAN}
        n      == Cardinality(idx)
        \* the index at rank k of the values sorted ascending (ties by position)
        Before(i, j) == LET c == FCmp(vals[i], vals[j]) IN c < 0 \/ (c = 0 /\ i < j)
        AtRank(k) == CHOOSE i \in idx : Cardinality({j \in idx : Before(j, i)}) = k - 1
    IN  IF n = 0 THEN NAN
        ELSE IF n % 2 = 1 THEN vals[AtRank((n + 1) \div 2)]
        ELSE FDiv(FAdd(vals[AtRank(n \div 2)], vals[AtRank(n \div 2 + 1)]), FFromInt(2))

\* line 773 over the rows still labelled 'excess stock' only
OverstockMedian_OfExcess(overstock_df) ==
    Median([i \in 1..Len(overstock_df) |->
              IF overstock_df[i].remark = ST_EXCESS THEN OverstockRatio(overstock_df[i])
              ELSE NAN])

\* line 773
OverstockMedian(overstock_df) ==
    Median([i \in 1..Len(overstock_df) |-> OverstockRatio(overstock_df[i])])

\* lines 775-776 without the test of line 774
OverstockRemark_NoTest(ratio, median_ratio, remark) ==
    IF ratio # NAN /\ median_ratio # NAN /\ FCmp(ratio, median_ratio) >= 0
    THEN ST_SEVERE ELSE ST_EXCESS

\* lines 774-776 with > for >=
OverstockRemark_Gt(ratio, median_ratio, remark) ==
    IF median_ratio = NAN THEN remark
    ELSE IF ratio # NAN /\ FCmp(ratio, median_ratio) > 0 THEN ST_SEVERE ELSE ST_EXCESS

\* lines 774-776: the label of a row of the overstock table
OverstockRemark(ratio, median_ratio, remark) ==
    IF median_ratio = NAN THEN remark
    ELSE IF ratio # NAN /\ FCmp(ratio, median_ratio) >= 0 THEN ST_SEVERE ELSE ST_EXCESS

OverstockSection(df_for_view) ==
    LET overstock_df == SelectRows(df_for_view,
                                   [i \in 1..Len(df_for_view) |->
                                      df_for_view[i].remark \in {ST_EXCESS, ST_SEVERE}])
        median_ratio == OverstockMedian(overstock_df)
    IN  [i \in 1..Len(overstock_df) |->
           [code |-> overstock_df[i].code, supplier |-> overstock_df[i].supplier,
            sales |-> overstock_df[i].sales, stock |-> overstock_df[i].stock,
            excess |-> overstock_df[i].excess,
            ratio |-> OverstockRatio(overstock_df[i]),
            remark |-> OverstockRemark(OverstockRatio(overstock_df[i]), median_ratio,
                                       overstock_df[i].remark)]]

(***************************************************************************)
(* The state: the settings file, the script's session state, the inputs of *)
(* a run and what the script last showed.                                  *)
(***************************************************************************)
VARIABLES
    file,           \* item_settings.json
    settings,       \* st.session_state.settings
    sheet,          \* the rows of the spreadsheet, cleaned (lines 528-537)
    period_days,    \* lines 445-447
    result_df,      \* st.session_state.result_df
    view_option,    \* the radio "data_filter_radio"
    searched_item,  \* st.session_state.searched_item: <<>> for None, else <<row>>
    info,           \* the counts of line 549
    overstock_df,   \* the overstock table as shown
    resolved,       \* what the resolvers returned
    passes,         \* how often the overstock section ran on the table
    clicked         \* the button whose handler ran in the last run of the script

vars == <<file, settings, sheet, period_days, result_df, view_option, searched_item,
          info, overstock_df, resolved, passes, clicked>>

ALL == "ALL"    \* 전체

\* a button by the key it is created with, and the supplier or item code in its key
Button(key, of) == [key |-> key, of |-> of]

NoClick == Button("", "")

NoInfo == [original_item_count |-> 0, keyword_excluded_count |-> 0, sales_excluded_count |-> 0]

MasterOnly(ps) == [master_defaults |-> ps, defaults |-> EmptyDict, overrides |-> EmptyDict]

Params(l, sr, ar, ou, ms) ==
    [lead_time |-> l, safety_stock_rate |-> sr, addition_rate |-> ar, order_unit |-> ou,
     min_sales |-> ms]

Row(code, supplier, name, sales, stock) ==
    [code |-> code, supplier |-> supplier, name |-> name, sales |-> sales, stock |-> stock]

PlainName == <<"c", "a", "s", "e">>

(***************************************************************************)
(* SpecCalc: calculate_order_quantity on bounded inputs.                   *)
(***************************************************************************)
MaxSales == 7
MaxStock == 14
MaxPeriod == 3

\* lead_time, safety_stock_rate, addition_rate, order_unit of the master tier
CalcParams ==
    { Params(5, 20, 0, 1, 0), Params(5, 100, 10, 1, 0), Params(7, 20, 10, 5, 0),
      Params(15, 10, 5, 10, 0), Params(0, 0, 0, 0, 0), Params(1, 0, 50, 2, 0),
      Params(5, 20, 10, 0, 0), Params(5, 20, 10, -5, 0) }

\* <<sales, period_days, stock, settings>>: Scenarios 1-3 and 5 of the
\* specification, the example of the dialog (lines 228-234, 264-268), and six days
\* of sales against a stock of more than twice the reorder point
CalcScenarios ==
    { <<600, 30, 80, Params(15, 10, 5, 10, 0)>>,
      <<0, 30, 100, Params(15, 10, 0, 5, 0)>>,
      <<600, 30, 800, Params(15, 10, 0, 5, 0)>>,
      <<600, 0, 80, Params(15, 10, 5, 10, 0)>>,
      <<600, 30, 280, Params(15, 10, 10, 5, 0)>>,
      <<7, 6, 15, Params(5, 20, 0, 1, 0)>> }

CalcInputs ==
    { <<q, p, c, ps>> : q \in 0..MaxSales, p \in (-1)..MaxPeriod, c \in 0..MaxStock,
                        ps \in CalcParams } \cup CalcScenarios

\* a second row, so that a result has more than one
ExtraRows == { <<>>, <<Row("B", "Y", PlainName, 3, 14)>> }

InitCalc ==
    /\ \E in \in CalcInputs, extra \in ExtraRows :
          /\ sheet = <<Row("A", "X", PlainName, in[1], in[3])>> \o extra
          /\ period_days = in[2]
          /\ settings = MasterOnly(in[4])
    /\ file = NoFile
    /\ result_df = <<>>
    /\ view_option = ALL
    /\ searched_item = <<>>
    /\ info = NoInfo
    /\ overstock_df = <<>>
    /\ resolved = <<>>
    /\ passes = 0
    /\ clicked = NoClick

\* a call of calculate_order_quantity(df, settings, period_days)
Calculate ==
    /\ result_df = <<>>
    /\ result_df' = calculate_order_quantity(sheet, settings, period_days)
    /\ UNCHANGED <<file, settings, sheet, period_days, view_option, searched_item, info,
                   overstock_df, resolved, passes, clicked>>

NextCalc == Calculate

SpecCalc == InitCalc /\ [][NextCalc]_vars

(***************************************************************************)
(* The quantities of section 4.3 as exact fractions of integers, for a     *)
(* result row r under the settings and the period of the run.              *)
(***************************************************************************)
RowSettings(r)  == get_settings_for_item(r.code, r.supplier, settings)
RowLead(r)      == Get(RowSettings(r), "lead_time", 0)
RowSafety(r)    == Get(RowSettings(r), "safety_stock_rate", 0)
RowAddition(r)  == Get(RowSettings(r), "addition_rate", 0)
RowUnit(r)      == LET u == Get(RowSettings(r), "order_unit", 1) IN IF u <= 0 THEN 1 ELSE u

\* reorder_point = Q/P * L * (1 + S/100) = RpNum / RpDen
RpNum(r) == r.sales * RowLead(r) * (100 + RowSafety(r))
RpDen    == 100 * period_days
\* base_order_quantity = reorder_point - C = BaseNum / RpDen
BaseNum(r) == RpNum(r) - r.stock * RpDen
\* base_order_quantity * (1 + A/100) = ScaledNum / ScaledDen
ScaledNum(r) == BaseNum(r) * (100 + RowAddition(r))
ScaledDen    == RpDen * 100

Calculated == result_df # <<>>

\* C2: for a row with period_days > 0 and base_order_quantity > 0, the recommended
\* quantity is a non-negative multiple of the effective order unit U, and the
\* smallest multiple of U that is >= base_order_quantity * (1 + A/100).
C2_RoundingLaw ==
    \A i \in 1..Len(result_df) :
        LET r == result_df[i]
        IN  (period_days > 0 /\ BaseNum(r) > 0) =>
               /\ r.recommended >= 0
               /\ r.recommended % RowUnit(r) = 0
               /\ r.recommended * ScaledDen >= ScaledNum(r)
               /\ (r.recommended - RowUnit(r)) * ScaledDen < ScaledNum(r)

\* C3: for a row with period_days > 0 and base_order_quantity <= 0, the status is
\* "excess stock" exactly when current_stock > 2 * reorder_point and
\* reorder_point > 0; otherwise it is "stock sufficient" with excess quantity 0
\* and recommended quantity 0.
C3_CoveredStatus ==
    \A i \in 1..Len(result_df) :
        LET r == result_df[i]
        IN  (period_days > 0 /\ BaseNum(r) <= 0) =>
               IF r.stock * RpDen > 2 * RpNum(r) /\ RpNum(r) > 0
               THEN r.remark = ST_EXCESS
               ELSE r.remark = ST_SUFFICIENT /\ r.excess = 0 /\ r.recommended = 0

\* C4: for a row with period_days > 0 and base_order_quantity > 0, the status is
\* "urgent reorder" exactly when current_stock < the row's final order quantity and
\* "reorder needed" exactly when current_stock >= it; there is no other status.
C4_ReorderStatus ==
    \A i \in 1..Len(result_df) :
        LET r == result_df[i]
        IN  (period_days > 0 /\ BaseNum(r) > 0) =>
               /\ r.remark \in {ST_URGENT, ST_REORDER}
               /\ (r.remark = ST_URGENT) <=> (r.stock < r.recommended)
               /\ (r.remark = ST_REORDER) <=> (r.stock >= r.recommended)

C4_Witness ==
    \E i \in 1..Len(result_df) :
        /\ period_days > 0 /\ BaseNum(result_df[i]) > 0
        /\ result_df[i].remark = ST_REORDER
        /\ result_df[i].stock = result_df[i].recommended

\* C5: called with period_days <= 0, calculate_order_quantity returns one result per
\* input row, each with recommended quantity 0, excess quantity 0, days-to-stockout
\* infinite and status "period invalid".
C5_InvalidPeriod ==
    (Calculated /\ period_days <= 0) =>
        /\ Len(result_df) = Len(sheet)
        /\ \A i \in 1..Len(result_df) :
              /\ result_df[i].code = sheet[i].code
              /\ result_df[i].recommended = 0
              /\ result_df[i].excess = 0
              /\ result_df[i].days = INF
              /\ result_df[i].remark = ST_PERIOD

C5_Witness ==
    /\ Calculated /\ period_days < 0 /\ Len(result_df) = 2
    /\ result_df[1].sales > 0 /\ result_df[1].stock = 0 /\ result_df[1].remark = ST_PERIOD

(***************************************************************************)
(* SpecResolve: the resolvers on the trees load_settings returns for a     *)
(* bounded set of settings files, whose supplier and item entries define   *)
(* some of the fields only.                                                *)
(***************************************************************************)
Restrict(d, S) == [k \in S |-> d[k]]

SupplierValues == Params(20, 30, 7, 6, 4)
ItemValues     == Params(30, 40, 9, 12, 8)

FieldSets ==
    { {}, {"lead_time"}, {"order_unit", "min_sales"}, {"safety_stock_rate", "order_unit"},
      Fields }

\* the entry of supplier X in "defaults", of item A in "overrides": none or a partial one
SupplierEntries == {EmptyDict} \cup { [k \in {"X"} |-> Restrict(SupplierValues, fs)] : fs \in FieldSets }
ItemEntries     == {EmptyDict} \cup { [k \in {"A"} |-> Restrict(ItemValues, fs)] : fs \in FieldSets }

MasterEntries ==
    { INITIAL_DEFAULT_SETTINGS, Params(10, 20, 5, 10, 3),
      Restrict(Params(10, 20, 5, 10, 3), Fields \ {"min_sales"}) }

StoreDocs ==
    { [master_defaults |-> m, defaults |-> d, overrides |-> o] :
          m \in MasterEntries, d \in SupplierEntries, o \in ItemEntries }
    \cup { [defaults |-> d, overrides |-> o] : d \in SupplierEntries, o \in ItemEntries }
    \cup { [master_defaults |-> m] : m \in MasterEntries }

StoreFiles == {NoFile} \cup { [exists |-> TRUE, doc |-> doc] : doc \in StoreDocs }

Codes     == {"A", "B"}
Suppliers == {"X", "Y"}

InitResolve ==
    /\ file \in StoreFiles
    /\ settings = load_settings(file)
    /\ sheet = <<>>
    /\ period_days = 1
    /\ result_df = <<>>
    /\ view_option = ALL
    /\ searched_item = <<>>
    /\ info = NoInfo
    /\ overstock_df = <<>>
    /\ resolved = <<>>
    /\ passes = 0
    /\ clicked = NoClick

\* get_settings_for_item, the merge of line 135 and get_min_sales_for_row for one item
Resolve ==
    /\ \E item_code \in Codes, supplier \in Suppliers :
          resolved' = << [code |-> item_code, supplier |-> supplier,
                          final |-> get_settings_for_item(item_code, supplier, settings),
                          calc |-> FinalSettings(item_code, supplier, settings),
                          min_sales |-> get_min_sales_for_row(
                                            Row(item_code, supplier, PlainName, 0, 0),
                                            settings)] >>
    /\ UNCHANGED <<file, settings, sheet, period_days, result_df, view_option,
                   searched_item, info, overstock_df, passes, clicked>>

NextResolve == Resolve

SpecResolve == InitResolve /\ [][NextResolve]_vars

\* the entry of a key in a tier of the tree, the empty one if there is none
TierEntry(tree, tier, key) == Get(Get(tree, tier, EmptyDict), key, EmptyDict)

\* the value three-tier fallback gives field f
Fallback(ov, sup, master, f) ==
    IF f \in DOMAIN ov THEN ov[f] ELSE IF f \in DOMAIN sup THEN sup[f] ELSE master[f]

\* C1: the resolved value of every field is the one of overrides[item_code] if that
\* entry defines the field, else the one of defaults[supplier] if that entry defines
\* it, else the one of master_defaults; so is every field the calculator reads; an
\* item with no override entry and no supplier entry resolves to master_defaults.
C1_FieldFallback ==
    \A i \in 1..Len(resolved) :
        LET r      == resolved[i]
            ov     == TierEntry(settings, "overrides", r.code)
            sup    == TierEntry(settings, "defaults", r.supplier)
            master == settings["master_defaults"]
            all    == DOMAIN ov \cup DOMAIN sup \cup DOMAIN master
        IN  /\ DOMAIN r.final = all
            /\ \A f \in all : r.final[f] = Fallback(ov, sup, master, f)
            /\ DOMAIN r.calc = all \ {"min_sales"}
            /\ \A f \in all \ {"min_sales"} : r.calc[f] = Fallback(ov, sup, master, f)
            /\ (r.code \notin DOMAIN Get(settings, "overrides", EmptyDict)
                  /\ r.supplier \notin DOMAIN Get(settings, "defaults", EmptyDict))
               => r.final = master

\* one resolution takes a field from each of the three tiers
C1_Witness ==
    /\ Len(resolved) = 1
    /\ LET r   == resolved[1]
           ov  == TierEntry(settings, "overrides", r.code)
           sup == TierEntry(settings, "defaults", r.supplier)
       IN  /\ "lead_time" \in DOMAIN ov /\ r.final["lead_time"] = ItemValues["lead_time"]
           /\ "order_unit" \in DOMAIN sup \ DOMAIN ov
           /\ r.final["order_unit"] = SupplierValues["order_unit"]
           /\ "addition_rate" \notin DOMAIN ov \cup DOMAIN sup
           /\ r.final["addition_rate"] = settings["master_defaults"]["addition_rate"]

(***************************************************************************)
(* SpecRun: the calculation run handler (lines 523-561) and the master     *)
(* save (lines 472-478) in a session started on a bounded set of settings  *)
(* files and spreadsheets.                                                 *)
(***************************************************************************)
CouponName  == <<"ku", "pon">>                                \* 쿠폰
MileageName == <<"x", "ma", "il", "ri", "ji", "y">>           \* a name around 마일리지

RunNames == {PlainName, MissingName, CouponName, MileageName}

RunFiles ==
    {NoFile} \cup
    { [exists |-> TRUE, doc |-> [master_defaults |-> m, defaults |-> d, overrides |-> o]] :
          m \in {INITIAL_DEFAULT_SETTINGS, Params(10, 20, 5, 10, 3)},
          d \in {EmptyDict, [k \in {"X"} |-> SupplierValues]},
          o \in {EmptyDict, [k \in {"A"} |-> ItemValues],
                 [k \in {"A"} |-> Restrict(ItemValues, {"lead_time"})]} }

SingleSheets ==
    { <<Row(cs[1], cs[2], n, q, 5)>> :
          cs \in {<<"A", "X">>, <<"B", "X">>, <<"B", "Y">>}, n \in RunNames,
          q \in {2, 3, 4, 7, 8} }

PairSheets ==
    { <<Row("A", "X", n1, q1, 5), Row("B", "X", n2, q2, 0)>> :
          n1 \in {PlainName, CouponName}, q1 \in {3, 8},
          n2 \in {MissingName, MileageName}, q2 \in {3, 4} }

\* <<sheet, period_days>>: a month, or an end date before the start date (line 445)
RunInputs ==
    { <<sh, 30>> : sh \in SingleSheets \cup PairSheets } \cup { <<sh, 0>> : sh \in PairSheets }

MasterPresets == { Params(15, 10, 0, 5, 4) }

InitRun ==
    /\ file \in RunFiles
    /\ settings = load_settings(file)
    /\ \E in \in RunInputs : sheet = in[1] /\ period_days = in[2]
    /\ result_df = <<>>
    /\ view_option = ALL
    /\ searched_item = <<>>
    /\ info = NoInfo
    /\ overstock_df = <<>>
    /\ resolved = <<>>
    /\ passes = 0
    /\ clicked = NoClick

\* lines 563-564, 571: the options of the radio, none while the result is empty
ViewOptions(result) ==
    IF result = <<>> THEN {} ELSE {ALL} \cup { result[i].supplier : i \in 1..Len(result) }

\* the value of the radio over the options of a result: the first option when the
\* value it had is not among them
ViewOver(result, view) == IF view \in ViewOptions(result) THEN view ELSE ALL

\* lines 583-587
df_for_view(result, view) ==
    IF view # ALL
    THEN SelectRows(result, [i \in 1..Len(result) |-> result[i].supplier = view])
    ELSE result

\* lines 769-776 on the filter of the whole table as classified, not on the view
OverstockOfView_Cached(result, view) == df_for_view(OverstockSection(result), view)

\* lines 563-588 and 769-776: the overstock table of a run of the script
OverstockOfView(result, view) == OverstockSection(df_for_view(result, view))

\* lines 523-561, then the overstock section of the view of the result (563-588, 769-776)
Run ==
    /\ clicked' = Button("run", "")
    /\ searched_item' = <<>>
    /\ IF period_days > 0
       THEN LET df_filtered       == KeywordFilter(sheet)
                df_final_filtered == ThresholdFilter(df_filtered, settings)
            IN  /\ info' = [original_item_count |-> Len(sheet),
                            keyword_excluded_count |-> Len(sheet) - Len(df_filtered),
                            sales_excluded_count |-> Len(df_filtered) - Len(df_final_filtered)]
                /\ result_df' = calculate_order_quantity(df_final_filtered, settings,
                                                         period_days)
                /\ view_option' = ViewOver(result_df', view_option)
                /\ overstock_df' = OverstockOfView(result_df', view_option')
       ELSE UNCHANGED <<info, result_df, view_option, overstock_df>>
    /\ UNCHANGED <<file, settings, sheet, period_days, resolved, passes>>

\* lines 472-478
MasterSave ==
    /\ \E new_master \in MasterPresets :
          settings' = DictSet(settings, "master_defaults", new_master)
    /\ file' = save_settings(settings')
    /\ clicked' = Button("master_save", "")
    /\ UNCHANGED <<sheet, period_days, result_df, view_option, searched_item, info,
                   overstock_df, resolved, passes>>

NextRun == Run \/ MasterSave

SpecRun == InitRun /\ [][NextRun]_vars

\* the name contains one of the keywords as a substring; a missing name contains none
HasKeyword(name) ==
    /\ name # MissingName
    /\ \E k \in 1..Len(EXCLUDE_KEYWORDS), i \in 1..Len(name), j \in 1..Len(name) :
          SubSeq(name, i, j) = EXCLUDE_KEYWORDS[k]

\* min_sales as section 4.1 resolves it for the row's item code and supplier
ResolvedMinSales(row, tree) == get_settings_for_item(row.code, row.supplier, tree)["min_sales"]

\* the input rows of a result
InputRows(result) ==
    [i \in 1..Len(result) |->
       Row(result[i].code, result[i].supplier, result[i].name, result[i].sales,
           result[i].stock)]

\* a step that ran the calculation
RunStep == result_df' # result_df \/ info' # info

\* C6: in a run, among the rows that survive keyword exclusion a row is dropped
\* exactly when its sales quantity is strictly less than the min_sales resolved for
\* its item code and supplier; a row at the threshold is kept; the kept rows, in
\* order, are the rows of the result.
C6_ThresholdExclusion ==
    [][ RunStep =>
          LET surv == SelectRows(sheet, [i \in 1..Len(sheet) |-> ~HasKeyword(sheet[i].name)])
              kept == SelectRows(surv, [i \in 1..Len(surv) |->
                                          ~(surv[i].sales < ResolvedMinSales(surv[i], settings))])
          IN  /\ InputRows(result_df') = kept
              /\ info'.sales_excluded_count = Len(surv) - Len(kept) ]_vars

\* a run dropped one row below its threshold and kept one at its threshold
C6_Witness ==
    /\ info.sales_excluded_count = 1
    /\ Len(result_df) = 1
    /\ result_df[1].sales > 0
    /\ result_df[1].sales = ResolvedMinSales(result_df[1], settings)

\* C10: in a run, a row is dropped by the keyword step exactly when its item name
\* contains one of the five keywords as a substring; a row with a missing name is
\* not dropped by this step; the keyword-excluded count is the number of rows this
\* step dropped.
C10_KeywordExclusion ==
    [][ RunStep =>
          LET hit == {i \in 1..Len(sheet) : HasKeyword(sheet[i].name)}
          IN  /\ Len(EXCLUDE_KEYWORDS) = 5
              /\ info'.original_item_count = Len(sheet)
              /\ info'.keyword_excluded_count = Cardinality(hit)
              /\ Len(result_df') + info'.sales_excluded_count = Len(sheet) - Cardinality(hit)
              /\ \A i \in 1..Len(result_df') : ~HasKeyword(result_df'[i].name)
              /\ \A i \in 1..Len(sheet) :
                    (i \notin hit /\ sheet[i].sales >= ResolvedMinSales(sheet[i], settings))
                    => \E j \in 1..Len(result_df') : InputRows(result_df')[j] = sheet[i] ]_vars

\* a run dropped a row for its keyword and kept a row without a name
C10_Witness ==
    /\ Len(sheet) = 2
    /\ info.keyword_excluded_count = 1
    /\ sheet[1].name = CouponName
    /\ Len(result_df) = 1 /\ result_df[1].name = MissingName

\* C7: for a settings file in which an item override or a supplier entry does not
\* specify min_sales, the threshold applied after load is the one of the next tier
\* that specifies it: the override's, else the supplier entry's, else that of
\* master_defaults.
C7_MinSalesFallThrough ==
    \A i \in 1..Len(resolved) :
        LET r   == resolved[i]
            ov  == TierEntry(file.doc, "overrides", r.code)
            sup == TierEntry(file.doc, "defaults", r.supplier)
        IN  file.exists =>
               r.min_sales = IF "min_sales" \in DOMAIN ov THEN ov["min_sales"]
                             ELSE IF "min_sales" \in DOMAIN sup THEN sup["min_sales"]
                             ELSE settings["master_defaults"]["min_sales"]

(***************************************************************************)
(* SpecOverstock: the overstock section (lines 769-776) on bounded results *)
(* of the calculator, applied to a result and then to its own table.       *)
(***************************************************************************)
MaxOverSales == 2
MaxOverStock == 3
MaxOverRows  == 3
MaxPasses    == 2

\* rows the calculator labels 'excess stock': a year of sales, a lead time of a day
OverRows ==
    { CalculateRow(Row("A", "X", PlainName, q, c), MasterOnly(Params(1, 0, 0, 1, 0)), 365) :
          q \in 1..MaxOverSales, c \in 1..MaxOverStock }

\* a row the calculator labels 'stock sufficient'
CoveredRow == CalculateRow(Row("B", "X", PlainName, 0, 0), MasterOnly(Params(1, 0, 0, 1, 0)), 365)

OverKey(r) == r.sales * (MaxOverStock + 1) + r.stock

\* the results of at most MaxOverRows excess rows, by sales and stock
OverResults ==
    { s \in UNION { [1..n -> OverRows] : n \in 0..MaxOverRows } :
          \A i \in 1..(Len(s) - 1) : OverKey(s[i]) <= OverKey(s[i + 1]) }

InitOverstock ==
    /\ \E s \in OverResults, head \in {<<>>, <<CoveredRow>>} : result_df = head \o s
    /\ file = NoFile
    /\ settings = load_settings(file)
    /\ sheet = <<>>
    /\ period_days = 365
    /\ view_option = ALL
    /\ searched_item = <<>>
    /\ info = NoInfo
    /\ overstock_df = <<>>
    /\ resolved = <<>>
    /\ passes = 0
    /\ clicked = NoClick

\* lines 769-776 on the result
Classify ==
    /\ passes = 0
    /\ overstock_df' = OverstockSection(result_df)
    /\ passes' = 1
    /\ UNCHANGED <<file, settings, sheet, period_days, result_df, view_option,
                   searched_item, info, resolved, clicked>>

\* lines 769-776 on the table they produced
Reclassify ==
    /\ passes >= 1 /\ passes < MaxPasses
    /\ overstock_df' = OverstockSection(overstock_df)
    /\ passes' = passes + 1
    /\ UNCHANGED <<file, settings, sheet, period_days, result_df, view_option,
                   searched_item, info, resolved, clicked>>

NextOverstock == Classify \/ Reclassify

SpecOverstock == InitOverstock /\ [][NextOverstock]_vars

\* the rows of the table whose ratio is defined
WithRatio(table) == {i \in 1..Len(table) : table[i].sales # 0}

\* stock/sales of row i before that of row j, as fractions, ties by position
RatioBefore(table, i, j) ==
    \/ table[i].stock * table[j].sales < table[j].stock * table[i].sales
    \/ (table[i].stock * table[j].sales = table[j].stock * table[i].sales /\ i < j)

RatioAtRank(table, k) ==
    CHOOSE i \in WithRatio(table) :
        Cardinality({j \in WithRatio(table) : RatioBefore(table, j, i)}) = k - 1

\* the median of the ratios as a fraction <<numerator, denominator>>
ExactMedian(table) ==
    LET n == Cardinality(WithRatio(table))
        lo == table[RatioAtRank(table, (n + 1) \div 2)]
        hi == table[RatioAtRank(table, n \div 2 + 1)]
    IN  IF n % 2 = 1 THEN <<lo.stock, lo.sales>>
        ELSE <<lo.stock * hi.sales + hi.stock * lo.sales, 2 * lo.sales * hi.sales>>

Labels(table) == [i \in 1..Len(table) |-> table[i].remark]

\* C8: when the median of stock/sales over the rows of the table with sales # 0
\* exists, every row whose ratio is >= the median is labelled 'severe excess stock'
\* and every row whose ratio is < the median is labelled 'excess stock', whatever
\* label the row carried before.
C8_MedianClassification ==
    (passes >= 1 /\ WithRatio(overstock_df) # {}) =>
        \A i \in WithRatio(overstock_df) :
            LET med == ExactMedian(overstock_df)
                r   == overstock_df[i]
            IN  IF r.stock * med[2] >= med[1] * r.sales
                THEN r.remark = ST_SEVERE
                ELSE r.remark = ST_EXCESS

\* three rows: one below the median, one exactly at it and labelled severe
C8_Witness ==
    /\ passes = 1 /\ Len(overstock_df) = 3
    /\ \E i, j \in 1..3 :
          LET med == ExactMedian(overstock_df)
          IN  /\ overstock_df[i].stock * med[2] = med[1] * overstock_df[i].sales
              /\ overstock_df[i].remark = ST_SEVERE
              /\ overstock_df[j].remark = ST_EXCESS

\* C9: the labels the classification gives its own table are the labels it gave
\* the result.
C9_Idempotent ==
    passes >= 1 => Labels(overstock_df) = Labels(OverstockSection(result_df))

\* a second pass over a table with both labels
C9_Witness ==
    /\ passes = 2
    /\ \E i, j \in 1..Len(overstock_df) :
          overstock_df[i].remark = ST_SEVERE /\ overstock_df[j].remark = ST_EXCESS

\* |a - num/den| <= num/den * 2^-51 for a float a >= 0 with a.e <= 0 and
\* naturals num, den > 0 below 2^28
FloatNear(a, num, den) ==
    LET lhs  == BMul(a.m, BFromNat(den))
        rhs  == BShl(BFromNat(num), -a.e)
        diff == IF BCmp(lhs, rhs) >= 0 THEN BSub(lhs, rhs) ELSE BSub(rhs, lhs)
    IN  a.s = 0 /\ a.e <= 0 /\ BCmp(BShl(diff, 51), rhs) <= 0

\* C11: for a row with period_days > 0, days-to-stockout is
\* current_stock / (sales_quantity / period_days), as a float, when
\* sales_quantity > 0, and infinite when sales_quantity = 0, whatever the row's
\* settings and status.
C11_DaysToStockout ==
    \A i \in 1..Len(result_df) :
        LET r == result_df[i]
        IN  period_days > 0 =>
               IF r.sales > 0
               THEN /\ r.days = FDiv(FFromInt(r.stock),
                                     FDiv(FFromInt(r.sales), FFromInt(period_days)))
                    /\ r.days # INF
                    /\ IF r.stock = 0 THEN r.days = FZero
                       ELSE FloatNear(r.days, r.stock * period_days, r.sales)
               ELSE r.days = INF

\* a row in excess whose stock lasts a number of days that no float holds exactly
C11_Witness ==
    \E i \in 1..Len(result_df) :
        /\ period_days > 1 /\ result_df[i].sales = 3 /\ result_df[i].stock = 7
        /\ result_df[i].remark = ST_EXCESS
        /\ result_df[i].days # INF

\* ceil(num / den) for den > 0
CeilFrac(num, den) == -((-num) \div den)

\* C12: in every result the recommended quantity is an integer >= 0 and the excess
\* quantity is an integer >= 0 that is 0 unless the status is 'excess stock'; when
\* the status is 'excess stock' the excess quantity is
\* current_stock - ceil(reorder_point) and the recommended quantity is 0.
C12_Quantities ==
    \A i \in 1..Len(result_df) :
        LET r == result_df[i]
        IN  /\ r.recommended \in Nat
            /\ r.excess \in Nat
            /\ r.remark # ST_EXCESS => r.excess = 0
            /\ r.remark = ST_EXCESS =>
                  /\ period_days > 0
                  /\ r.recommended = 0
                  /\ r.excess = r.stock - CeilFrac(RpNum(r), RpDen)

\* C13: a row whose resolved order_unit is <= 0 is calculated as if its order_unit
\* were 1: the same quantities, status and days, and the applied settings of the
\* row show the unit 1.
C13_UnitCoerced ==
    \A i \in 1..Len(result_df) :
        LET r  == result_df[i]
            fs == FinalSettings(r.code, r.supplier, settings)
        IN  ("order_unit" \in DOMAIN fs /\ fs["order_unit"] <= 0) =>
               /\ r = CalculateFrom(InputRows(result_df)[i], DictSet(fs, "order_unit", 1),
                                    period_days)
               /\ r.applied.U = 1
               /\ r.remark \in {ST_URGENT, ST_REORDER} => r.recommended >= 1

\* a row with a negative unit that needs an order of a quantity no multiple of 5
C13_Witness ==
    \E i \in 1..Len(result_df) :
        /\ RowSettings(result_df[i])["order_unit"] < 0
        /\ result_df[i].remark = ST_URGENT
        /\ result_df[i].recommended % 5 # 0
        /\ result_df[i].applied.U = 1

\* the table with no sales in any row
ZeroSales(table) == [i \in 1..Len(table) |-> [table[i] EXCEPT !.sales = 0]]

\* the rows of a table that the overstock section selects
ExcessSubset(table) ==
    SelectRows(table, [i \in 1..Len(table) |-> table[i].remark \in {ST_EXCESS, ST_SEVERE}])

\* C14: when the overstock subset is empty, or every row of it has sales quantity
\* 0, the section changes no label: every row keeps the status it had.
C14_NoMedian ==
    /\ (passes >= 1 /\ ExcessSubset(result_df) = <<>>) => overstock_df = <<>>
    /\ Labels(OverstockSection(ZeroSales(result_df))) = Labels(ExcessSubset(result_df))
    /\ Labels(OverstockSection(ZeroSales(overstock_df))) = Labels(overstock_df)

\* the section ran on a result without an excess row
C14_Witness ==
    /\ passes >= 1
    /\ Len(result_df) = 1 /\ result_df[1].remark = ST_SUFFICIENT
    /\ overstock_df = <<>>

(***************************************************************************)
(* The application: the handlers of the settings panel (lines 463-508), the *)
(* run (523-561), the view (563-588) and the item panel (668-742).          *)
(***************************************************************************)
AppPeriod == 30

AppSheet ==
    << Row("A", "X", PlainName, 8, 200), Row("B", "Y", PlainName, 3, 400) >>

\* settings files: none; one of before the master tier, with partial entries; one
\* whose master_defaults has two fields only
AppFiles ==
    { NoFile,
      [exists |-> TRUE,
       doc |-> [defaults  |-> [k \in {"X"} |-> Restrict(SupplierValues, {"order_unit"})],
                overrides |-> [k \in {"A"} |-> Restrict(ItemValues, {"lead_time"})]]],
      [exists |-> TRUE,
       doc |-> [master_defaults |-> Restrict(Params(10, 20, 5, 10, 3),
                                             {"safety_stock_rate", "addition_rate"}),
                defaults |-> EmptyDict, overrides |-> EmptyDict]] }

\* what the panels' number inputs hold when a save button is pressed
SupplierPresets == { SupplierValues }
ItemPresets     == { ItemValues }

\* the suppliers selected in the supplier panel
SupplierChoices == { "X" }

\* the codes typed into the search box
SearchCodes == { "A", "Z" }

InitApp ==
    /\ file \in AppFiles
    /\ settings = load_settings(file)
    /\ sheet = AppSheet
    /\ period_days = AppPeriod
    /\ result_df = <<>>
    /\ view_option = ALL
    /\ searched_item = <<>>
    /\ info = NoInfo
    /\ overstock_df = <<>>
    /\ resolved = <<>>
    /\ passes = 0
    /\ clicked = NoClick

\* lines 448-459: the suppliers of the file
SheetSuppliers == { sheet[i].supplier : i \in 1..Len(sheet) }

\* lines 495-501
SupplierSave ==
    /\ \E supplier_to_edit \in SupplierChoices \cap SheetSuppliers, new_defaults \in SupplierPresets :
          /\ settings' = DictSet(settings, "defaults",
                                 DictSet(settings["defaults"], supplier_to_edit, new_defaults))
          /\ clicked' = Button("d_save", supplier_to_edit)
    /\ file' = save_settings(settings')
    /\ UNCHANGED <<sheet, period_days, result_df, view_option, searched_item, info,
                   overstock_df, resolved, passes>>

\* lines 503-508
SupplierReset ==
    /\ \E supplier_to_edit \in SupplierChoices \cap SheetSuppliers :
          /\ clicked' = Button("d_reset", supplier_to_edit)
          /\ IF supplier_to_edit \in DOMAIN settings["defaults"]
             THEN /\ settings' = DictSet(settings, "defaults",
                                         DictDel(settings["defaults"], supplier_to_edit))
                  /\ file' = save_settings(settings')
             ELSE UNCHANGED <<settings, file>>
    /\ UNCHANGED <<sheet, period_days, result_df, view_option, searched_item, info,
                   overstock_df, resolved, passes>>

\* lines 572-581, then 583-588 and 769-776 of the run of the script that follows
SelectView ==
    /\ \E option \in ViewOptions(result_df) \ {view_option} :
          /\ view_option' = option
          /\ clicked' = Button("data_filter_radio", option)
    /\ searched_item' = <<>>
    /\ overstock_df' = OverstockOfView(result_df, view_option')
    /\ UNCHANGED <<file, settings, sheet, period_days, result_df, info, resolved, passes>>

\* lines 672-676
Search ==
    /\ result_df # <<>>
    /\ \E search_code \in SearchCodes :
          LET view          == df_for_view(result_df, view_option)
              search_result == SelectRows(view, [i \in 1..Len(view) |->
                                                    view[i].code = search_code])
          IN  searched_item' = IF search_result # <<>> THEN <<search_result[1]>> ELSE <<>>
    /\ clicked' = Button("search", "")
    /\ UNCHANGED <<file, settings, sheet, period_days, result_df, view_option, info,
                   overstock_df, resolved, passes>>

\* lines 720-731
ItemSave ==
    /\ searched_item # <<>>
    /\ \E new_override \in ItemPresets :
          LET item_code_to_edit == searched_item[1].code
          IN  /\ file' = save_settings(DictSet(settings, "overrides",
                                       DictSet(settings["overrides"], item_code_to_edit,
                                               new_override)))
              /\ clicked' = Button("o_save", item_code_to_edit)
    /\ settings' = load_settings(file')
    /\ searched_item' = <<>>
    /\ UNCHANGED <<sheet, period_days, result_df, view_option, info, overstock_df,
                   resolved, passes>>

\* lines 733-742
ItemReset ==
    /\ searched_item # <<>>
    /\ LET item_code_to_edit == searched_item[1].code
       IN  /\ clicked' = Button("o_reset", item_code_to_edit)
           /\ IF item_code_to_edit \in DOMAIN settings["overrides"]
              THEN /\ file' = save_settings(DictSet(settings, "overrides",
                                            DictDel(settings["overrides"],
                                                    item_code_to_edit)))
                   /\ settings' = load_settings(file')
                   /\ searched_item' = <<>>
              ELSE UNCHANGED <<file, settings, searched_item>>
    /\ UNCHANGED <<sheet, period_days, result_df, view_option, info, overstock_df,
                   resolved, passes>>

NextApp ==
    \/ Run
    \/ MasterSave
    \/ SupplierSave
    \/ SupplierReset
    \/ SelectView
    \/ Search
    \/ ItemSave
    \/ ItemReset

SpecApp == InitApp /\ [][NextApp]_vars

\* the settings file holds the tree of the session
Synced == file.exists /\ file.doc = settings

\* the handlers that write the tree, by the keys of their buttons
SaveKeys  == {"master_save", "d_save", "o_save"}
ResetKeys == {"d_reset", "o_reset"}

\* the tier a restore button works on
ResetTier(key) == IF key = "d_reset" THEN "defaults" ELSE "overrides"

\* C15: every mutation of the settings tree is persisted at once: after each master
\* save, supplier save, item save, and each restore of a supplier or item entry,
\* the settings file holds the tree of the session, and from the first mutation on
\* the two are equal in every state.
C15_Persisted ==
    [][ /\ settings' # settings => Synced'
        /\ clicked'.key \in SaveKeys => Synced'
        /\ (clicked'.key \in ResetKeys
              /\ clicked'.of \in DOMAIN settings[ResetTier(clicked'.key)]) => Synced'
        /\ Synced => Synced' ]_vars

\* an item restore after a master save and a supplier save
C15_Witness ==
    /\ clicked = Button("o_reset", "A")
    /\ "A" \notin DOMAIN settings["overrides"]
    /\ "X" \in DOMAIN settings["defaults"] /\ settings["defaults"]["X"] \in SupplierPresets
    /\ settings["master_defaults"] \in MasterPresets
    /\ Synced

\* C16: after load_settings from any settings file (none, one without
\* master_defaults, one whose master_defaults omits fields) master_defaults defines
\* all five fields, the missing ones with the built-in defaults 15 / 10 / 0 / 5 / 0;
\* and it defines all five after every master save.
C16_MasterComplete ==
    /\ DOMAIN settings["master_defaults"] = Fields
    /\ clicked = NoClick =>
          \A f \in Fields :
              settings["master_defaults"][f] =
                  Get(Get(file.doc, "master_defaults", EmptyDict), f, INITIAL_DEFAULT_SETTINGS[f])

\* the rows of the file a run calculates: without a keyword, not below min_sales
RowsToCalculate ==
    SelectRows(sheet, [i \in 1..Len(sheet) |->
                          /\ ~HasKeyword(sheet[i].name)
                          /\ sheet[i].sales >= ResolvedMinSales(sheet[i], settings)])

\* C17: the stored result changes only by a calculation run: no save and no restore
\* (master, supplier, item) alters it, and a successful run replaces the whole of
\* it by the rows calculated from the settings tree as it is at that run.
C17_ResultFrame ==
    [][ /\ clicked'.key # "run" => result_df' = result_df
        /\ (clicked'.key = "run" /\ period_days > 0) =>
              /\ settings' = settings
              /\ result_df' = [i \in 1..Len(RowsToCalculate) |->
                                 CalculateRow(RowsToCalculate[i], settings, period_days)] ]_vars

\* after an item save the stored result is the one of the tree before the save
C17_Witness ==
    /\ clicked = Button("o_save", "A")
    /\ Len(result_df) = 2
    /\ result_df[1].applied # CalculateRow(sheet[1], settings, period_days).applied

\* a tree without the entry of a key in a tier
WithoutEntry(tree, tier, key) ==
    [t \in DOMAIN tree |->
       IF t = tier THEN [k \in (DOMAIN tree[t]) \ {key} |-> tree[t][k]] ELSE tree[t]]

\* C18: a restore removes the entry of its tier and the lower tiers show: after the
\* restore of a supplier entry every item of the supplier without an override
\* resolves to master_defaults; after the restore of an item override the item
\* resolves to what its supplier entry and master_defaults give; a restore where
\* there is no entry changes neither the tree of the session nor the settings file.
C18_Restore ==
    [][ /\ clicked'.key = "d_reset" =>
              LET supplier == clicked'.of
                  master   == settings'["master_defaults"]
              IN  IF supplier \in DOMAIN settings["defaults"]
                  THEN /\ settings' = WithoutEntry(settings, "defaults", supplier)
                       /\ file'.exists /\ file'.doc = settings'
                       /\ \A code \in Codes :
                             code \notin DOMAIN settings'["overrides"] =>
                                /\ get_settings_for_item(code, supplier, settings') = master
                                /\ FinalSettings(code, supplier, settings')
                                      = Restrict(master, (DOMAIN master) \ {"min_sales"})
                                /\ get_min_sales_for_row(Row(code, supplier, PlainName, 0, 0),
                                                         settings') = master["min_sales"]
                  ELSE settings' = settings /\ file' = file
        /\ clicked'.key = "o_reset" =>
              LET code   == clicked'.of
                  master == settings'["master_defaults"]
              IN  IF code \in DOMAIN settings["overrides"]
                  THEN /\ settings' = WithoutEntry(settings, "overrides", code)
                       /\ file'.exists /\ file'.doc = settings'
                       /\ \A supplier \in Suppliers :
                             LET entry == TierEntry(settings', "defaults", supplier)
                             IN  /\ get_settings_for_item(code, supplier, settings')
                                       = DictMerge(master, entry)
                                 /\ get_min_sales_for_row(
                                        Row(code, supplier, PlainName, 0, 0), settings')
                                       = DictMerge(master, entry)["min_sales"]
                  ELSE settings' = settings /\ file' = file ]_vars

\* the entry of supplier X was removed under the override of the file for item A
C18_Witness ==
    /\ clicked = Button("d_reset", "X")
    /\ "X" \notin DOMAIN settings["defaults"]
    /\ "A" \in DOMAIN settings["overrides"]
    /\ DOMAIN settings["overrides"]["A"] = {"lead_time", "min_sales"}
    /\ settings["master_defaults"] = INITIAL_DEFAULT_SETTINGS
    /\ file.doc = settings

\* the excess rows of the stored result that the selected view shows
ViewExcess ==
    SelectRows(result_df, [i \in 1..Len(result_df) |->
                              /\ view_option = ALL \/ result_df[i].supplier = view_option
                              /\ result_df[i].remark = ST_EXCESS])

\* C19: the overstock labels are the ones of the selected view: the table shown
\* holds the excess rows of the view (all suppliers or one), labelled by the
\* median of stock/sales over exactly those rows; the stored result keeps the
\* statuses of the calculator and never holds 'severe excess stock'.
C19_PerView ==
    /\ \A i \in 1..Len(result_df) :
          result_df[i].remark \in {ST_URGENT, ST_REORDER, ST_SUFFICIENT, ST_EXCESS, ST_PERIOD}
    /\ result_df # <<>> => view_option \in ViewOptions(result_df)
    /\ Len(overstock_df) = Len(ViewExcess)
    /\ \A i \in 1..Len(overstock_df) :
          LET r   == overstock_df[i]
              med == ExactMedian(ViewExcess)
          IN  /\ r.code = ViewExcess[i].code
              /\ r.remark = IF r.stock * med[2] >= med[1] * r.sales
                            THEN ST_SEVERE ELSE ST_EXCESS

\* the view of supplier X labels item A severe, the view of all suppliers does not
C19_Witness ==
    /\ view_option = "X"
    /\ Len(result_df) = 2
    /\ Len(overstock_df) = 1 /\ overstock_df[1].code = "A"
    /\ overstock_df[1].remark = ST_SEVERE
    /\ OverstockSection(result_df)[1].code = "A"
    /\ OverstockSection(result_df)[1].remark = ST_EXCESS

\* the parameters of the calculation
Parameters == Fields \ {"min_sales"}

\* C20: where no tier defines a parameter the calculator uses the built-in default
\* of it (lead_time 15, safety_stock_rate 10, addition_rate 0, order_unit 5), the
\* value the settings export reports for the item.
C20_BuiltInDefaults ==
    [][ (clicked'.key = "run" /\ period_days > 0) =>
          \A i \in 1..Len(result_df') :
              LET r       == result_df'[i]
                  tiers   == FinalSettings(r.code, r.supplier, settings)
                  export  == create_settings_export_data(result_df', settings)[i]
              IN  /\ \A p \in Parameters \ DOMAIN tiers :
                        export[p] = INITIAL_DEFAULT_SETTINGS[p]
                  /\ r = CalculateFrom(InputRows(result_df')[i],
                                       DictMerge(Restrict(INITIAL_DEFAULT_SETTINGS, Parameters),
                                                 tiers),
                                       period_days)
                  /\ r.applied.L = export.lead_time
                  /\ r.applied.U = export.order_unit ]_vars

\* C21: every row of a calculation result has one status out of 'urgent reorder',
\* 'reorder needed', 'sufficient stock', 'excess stock', 'period invalid', and its
\* recommended quantity is > 0 exactly when the status is 'urgent reorder' or
\* 'reorder needed': the rows with a recommended quantity > 0 (line 590) are the
\* rows with a reorder status.
C21_StatusAndQuantity ==
    /\ \A i \in 1..Len(result_df) :
          LET r == result_df[i]
          IN  /\ r.remark \in {ST_URGENT, ST_REORDER, ST_SUFFICIENT, ST_EXCESS, ST_PERIOD}
              /\ r.recommended > 0 <=> r.remark \in {ST_URGENT, ST_REORDER}
    /\ SelectRows(result_df, [i \in 1..Len(result_df) |-> result_df[i].recommended > 0])
          = SelectRows(result_df, [i \in 1..Len(result_df) |->
                                      result_df[i].remark \in {ST_URGENT, ST_REORDER}])

\* a row short of its reorder point by less than one piece is recommended one piece
C21_Witness ==
    \E i \in 1..Len(result_df) :
        /\ result_df[i].remark = ST_REORDER
        /\ result_df[i].recommended = 1
        /\ BaseNum(result_df[i]) > 0 /\ BaseNum(result_df[i]) < RpDen

\* C22: every row the calculator labels 'excess stock' has a sales quantity > 0
\* and a lead time > 0; so in every view of a result with an excess row every
\* stock/sales ratio of the overstock table is defined, the median exists, and
\* the rows of the largest ratio are labelled 'severe excess stock'.
C22_ExcessHasSales ==
    /\ \A i \in 1..Len(result_df) :
          result_df[i].remark = ST_EXCESS =>
              result_df[i].sales > 0 /\ result_df[i].applied.L > 0
    /\ \A view \in ViewOptions(result_df) :
          LET subset == ExcessSubset(df_for_view(result_df, view))
              table  == OverstockOfView(result_df, view)
          IN  subset # <<>> =>
                 /\ Len(table) = Len(subset)
                 /\ \A i \in 1..Len(table) : table[i].ratio # NAN
                 /\ OverstockMedian(subset) # NAN
                 /\ \A i \in 1..Len(table) :
                       (\A j \in 1..Len(table) :
                           table[i].stock * table[j].sales >= table[j].stock * table[i].sales)
                       => table[i].remark = ST_SEVERE

\* a result of two excess rows, one labelled severe and one not in the view of all
C22_Witness ==
    /\ Len(result_df) = 2
    /\ result_df[1].remark = ST_EXCESS /\ result_df[2].remark = ST_EXCESS
    /\ OverstockSection(result_df)[1].remark # OverstockSection(result_df)[2].remark

\* C23: an item save stores all five fields in the override of the item; from
\* then until the override is restored the parameters and the min_sales resolved
\* for the item are the saved values: a master save, a supplier save and a
\* supplier restore leave the override and what it resolves to unchanged.
C23_OverrideFixes ==
    [][ /\ clicked'.key = "o_save" =>
              /\ clicked'.of \in DOMAIN settings'["overrides"]
              /\ settings'["overrides"][clicked'.of] \in ItemPresets
              /\ DOMAIN settings'["overrides"][clicked'.of] = Fields
        /\ clicked'.key \in {"master_save", "d_save", "d_reset"} =>
              settings'["overrides"] = settings["overrides"]
        /\ \A code \in DOMAIN settings'["overrides"] :
              LET entry == settings'["overrides"][code]
              IN  DOMAIN entry = Fields =>
                     \A supplier \in Suppliers :
                        /\ get_settings_for_item(code, supplier, settings') = entry
                        /\ FinalSettings(code, supplier, settings')
                              = Restrict(entry, Parameters)
                        /\ get_min_sales_for_row(Row(code, supplier, PlainName, 0, 0),
                                                 settings') = entry["min_sales"] ]_vars

\* a master save over the saved override of item A and a saved entry of supplier X
C23_Witness ==
    /\ clicked = Button("master_save", "")
    /\ "A" \in DOMAIN settings["overrides"] /\ settings["overrides"]["A"] \in ItemPresets
    /\ "X" \in DOMAIN settings["defaults"] /\ settings["defaults"]["X"] \in SupplierPresets
    /\ get_min_sales_for_row(Row("A", "X", PlainName, 0, 0), settings) = 8

====
